---- MODULE Spec2Model ----
(***************************************************************************)
(* AR.Timeline Creator v1 (AR_Timeline_Creator.py): a Streamlit script.    *)
(* Every user interaction re-runs the script top to bottom against the    *)
(* session state (events, edit_id).  The model follows one script run     *)
(* section by section (sidebar export, JSON import, edit lookup, form     *)
(* buttons, filter and sort, event cards, chart rows) and models the pure *)
(* helpers (safe_parse_date, ensure_list, filtered_events, sorted_events, *)
(* to_dataframe) as operators.                                            *)
(*                                                                         *)
(* Text is a sequence of one-character strings, so that strip, lower,     *)
(* split, join, substring search and date parsing are computed.           *)
(* An event is a function from the keys it holds to their values; a key   *)
(* a JSON record lacks is outside its DOMAIN.  The two list fields carry  *)
(* a type tag ([list |-> ..], [str |-> ..], [null |-> ..]) because the    *)
(* code branches on their type (isinstance); the other fields hold values *)
(* of the type the form writes.                                           *)
(***************************************************************************)
EXTENDS Integers, Sequences, FiniteSets, TLC

\* ----------------------------------------------------------------- text

\* The characters of the model, in code-point order.
Alphabet ==
    << " ", ",", "-", "0", "1", "2", "3", "4", "5", "6", "7", "8", "9",
       "A", "B", "a", "b" >>

Ord(c) == CHOOSE i \in 1..Len(Alphabet) : Alphabet[i] = c

IsDigit(c) == c \in {"0", "1", "2", "3", "4", "5", "6", "7", "8", "9"}

DigitVal(c) == Ord(c) - Ord("0")

IsSpace(c) == c = " "

\* str.lower() on one character
LowerChar(c) == IF c = "A" THEN "a" ELSE IF c = "B" THEN "b" ELSE c

\* str.lower()
lower(s) == [i \in 1..Len(s) |-> LowerChar(s[i])]

\* str.strip(): leading and trailing whitespace removed
strip(s) ==
    LET idx == {i \in 1..Len(s) : ~IsSpace(s[i])}
        lo == CHOOSE i \in idx : \A j \in idx : i <= j
        hi == CHOOSE i \in idx : \A j \in idx : i >= j
    IN  IF idx = {} THEN <<>> ELSE SubSeq(s, lo, hi)

\* str.split(","): "" gives [""]
RECURSIVE SplitFrom(_, _, _)
SplitFrom(s, i, cur) ==
    IF i > Len(s) THEN <<cur>>
    ELSE IF s[i] = "," THEN <<cur>> \o SplitFrom(s, i + 1, <<>>)
    ELSE SplitFrom(s, i + 1, Append(cur, s[i]))

split(s) == SplitFrom(s, 1, <<>>)

\* sep.join(parts)
RECURSIVE join(_, _)
join(sep, parts) ==
    IF parts = <<>> THEN <<>>
    ELSE IF Len(parts) = 1 THEN parts[1]
    ELSE parts[1] \o sep \o join(sep, Tail(parts))

\* needle in hay (Python substring test)
Contains(hay, needle) ==
    \E i \in 1..(Len(hay) + 1) :
        /\ i + Len(needle) - 1 <= Len(hay)
        /\ SubSeq(hay, i, i + Len(needle) - 1) = needle

\* a < b for str: lexicographic by code point
RECURSIVE StrLess(_, _)
StrLess(a, b) ==
    IF b = <<>> THEN FALSE
    ELSE IF a = <<>> THEN TRUE
    ELSE IF a[1] # b[1] THEN Ord(a[1]) < Ord(b[1])
    ELSE StrLess(Tail(a), Tail(b))

\* ----------------------------------------------------------- dates

None == <<>>

IsLeap(y) == (y % 4 = 0 /\ y % 100 # 0) \/ y % 400 = 0

DaysInMonth(y, m) ==
    IF m = 2 THEN (IF IsLeap(y) THEN 29 ELSE 28)
    ELSE IF m \in {4, 6, 9, 11} THEN 30 ELSE 31

\* %Y of strptime: exactly four digits
YearTok(t) ==
    IF Len(t) = 4 /\ \A i \in 1..4 : IsDigit(t[i])
    THEN 1000 * DigitVal(t[1]) + 100 * DigitVal(t[2]) + 10 * DigitVal(t[3]) + DigitVal(t[4])
    ELSE -1

\* %m of strptime: 1[0-2] | 0[1-9] | [1-9]
MonthTok(t) ==
    IF Len(t) = 2 /\ t[1] = "1" /\ t[2] \in {"0", "1", "2"} THEN 10 + DigitVal(t[2])
    ELSE IF Len(t) = 2 /\ t[1] = "0" /\ IsDigit(t[2]) /\ t[2] # "0" THEN DigitVal(t[2])
    ELSE IF Len(t) = 1 /\ IsDigit(t[1]) /\ t[1] # "0" THEN DigitVal(t[1])
    ELSE -1

\* %d of strptime: 3[0-1] | [1-2]\d | 0[1-9] | [1-9] | " "[1-9]
DayTok(t) ==
    IF Len(t) = 2 /\ t[1] = "3" /\ t[2] \in {"0", "1"} THEN 30 + DigitVal(t[2])
    ELSE IF Len(t) = 2 /\ t[1] \in {"1", "2"} /\ IsDigit(t[2]) THEN 10 * DigitVal(t[1]) + DigitVal(t[2])
    ELSE IF Len(t) = 2 /\ t[1] \in {"0", " "} /\ IsDigit(t[2]) /\ t[2] # "0" THEN DigitVal(t[2])
    ELSE IF Len(t) = 1 /\ IsDigit(t[1]) /\ t[1] # "0" THEN DigitVal(t[1])
    ELSE -1

\* datetime.date(y, m, d): ValueError outside the calendar (caught by the caller)
MakeDate(y, m, d) ==
    IF y >= 1 /\ y <= 9999 /\ m >= 1 /\ m <= 12 /\ d >= 1 /\ d <= DaysInMonth(y, m)
    THEN <<y, m, d>> ELSE None

\* datetime.strptime(s, "%Y-%m-%d").date(), None for ValueError
ParseYMD(s) ==
    LET n == Len(s)
        cuts == {k \in 6..(n - 1) : s[k] = "-"}
        ok == {k \in cuts : /\ MonthTok(SubSeq(s, 6, k - 1)) > 0
                            /\ DayTok(SubSeq(s, k + 1, n)) > 0}
        k == CHOOSE k \in ok : TRUE
    IN  IF n >= 8 /\ s[5] = "-" /\ YearTok(SubSeq(s, 1, 4)) >= 0 /\ ok # {}
        THEN MakeDate(YearTok(SubSeq(s, 1, 4)), MonthTok(SubSeq(s, 6, k - 1)),
                      DayTok(SubSeq(s, k + 1, n)))
        ELSE None

\* datetime.strptime(s, "%Y-%m").date(), None for ValueError
ParseYM(s) ==
    LET n == Len(s)
    IN  IF n >= 6 /\ s[5] = "-" /\ YearTok(SubSeq(s, 1, 4)) >= 0 /\ MonthTok(SubSeq(s, 6, n)) > 0
        THEN MakeDate(YearTok(SubSeq(s, 1, 4)), MonthTok(SubSeq(s, 6, n)), 1)
        ELSE None

\* datetime.strptime(s, "%Y").date(), None for ValueError
ParseY(s) ==
    IF YearTok(s) >= 0 THEN MakeDate(YearTok(s), 1, 1) ELSE None

safe_parse_date(s0) ==
    IF s0 = <<>> THEN None
    ELSE LET s == strip(s0)
         IN  IF ParseYMD(s) # None THEN ParseYMD(s)
             ELSE IF ParseYM(s) # None THEN ParseYM(s)
             ELSE ParseY(s)

\* date < date
DateLess(a, b) ==
    \/ a[1] < b[1]
    \/ a[1] = b[1] /\ a[2] < b[2]
    \/ a[1] = b[1] /\ a[2] = b[2] /\ a[3] < b[3]

\* ---------------------------------------------------------- events

\* Tagged values of the list fields (characters, categories).
ListV(l) == [list |-> l]
StrV(s) == [str |-> s]
NullV == [null |-> TRUE]

IsList(v) == "list" \in DOMAIN v
IsNull(v) == "null" \in DOMAIN v

\* dict.get(key, default)
Get(e, k, default) == IF k \in DOMAIN e THEN e[k] ELSE default

\* The order-preserving, case-insensitive dedupe loop of ensure_list.
RECURSIVE Dedupe(_, _, _)
Dedupe(parts, seen, out) ==
    IF parts = <<>> THEN out
    ELSE IF lower(parts[1]) \notin seen
         THEN Dedupe(Tail(parts), seen \cup {lower(parts[1])}, Append(out, parts[1]))
         ELSE Dedupe(Tail(parts), seen, out)

\* [p.strip() for p in parts if p.strip()]
RECURSIVE StripParts(_)
StripParts(parts) ==
    IF parts = <<>> THEN <<>>
    ELSE IF strip(parts[1]) # <<>>
         THEN <<strip(parts[1])>> \o StripParts(Tail(parts))
         ELSE StripParts(Tail(parts))

\* ensure_list on a tagged value: the result is an untagged list of texts
ensure_list(v) ==
    IF IsNull(v) THEN <<>>
    ELSE IF IsList(v) THEN v.list
    ELSE Dedupe(StripParts(split(v.str)), {}, <<>>)

\* new_event_template(): the record, with the uuid4 value passed in
new_event_template(uuid) ==
    [id |-> uuid, title |-> <<>>, date_text |-> <<>>, start_date |-> <<>>,
     end_date |-> <<>>, era |-> <<>>, story |-> <<>>, characters |-> ListV(<<>>),
     categories |-> ListV(<<>>), notes |-> <<>>, sort_index |-> 0]

\* ------------------------------------------------------------ query

LowerAll(l) == {lower(l[i]) : i \in 1..Len(l)}

\* match(ev) with the character criterion compared as typed, not lower-cased
match_as_typed(ev, story, era, character, category, keyword) ==
    /\ story # <<>> => strip(Get(ev, "story", <<>>)) = story
    /\ era # <<>> => strip(Get(ev, "era", <<>>)) = era
    /\ character # <<>>
          => character \in LowerAll(ensure_list(Get(ev, "characters", ListV(<<>>))))
    /\ category # <<>>
          => lower(category) \in LowerAll(ensure_list(Get(ev, "categories", ListV(<<>>))))
    /\ keyword # <<>>
          => Contains(lower(join(<<" ">>, <<
                 Get(ev, "title", <<>>), Get(ev, "date_text", <<>>),
                 Get(ev, "story", <<>>), Get(ev, "era", <<>>),
                 join(<<",", " ">>, ensure_list(Get(ev, "characters", ListV(<<>>)))),
                 join(<<",", " ">>, ensure_list(Get(ev, "categories", ListV(<<>>)))),
                 Get(ev, "notes", <<>>) >>)), lower(keyword))

\* match(ev) of filtered_events
match(ev, story, era, character, category, keyword) ==
    IF story # <<>> /\ strip(Get(ev, "story", <<>>)) # story THEN FALSE
    ELSE IF era # <<>> /\ strip(Get(ev, "era", <<>>)) # era THEN FALSE
    ELSE IF character # <<>>
            /\ lower(character) \notin LowerAll(ensure_list(Get(ev, "characters", ListV(<<>>))))
         THEN FALSE
    ELSE IF category # <<>>
            /\ lower(category) \notin LowerAll(ensure_list(Get(ev, "categories", ListV(<<>>))))
         THEN FALSE
    ELSE IF keyword # <<>>
         THEN LET blob == lower(join(<<" ">>, <<
                      Get(ev, "title", <<>>), Get(ev, "date_text", <<>>),
                      Get(ev, "story", <<>>), Get(ev, "era", <<>>),
                      join(<<",", " ">>, ensure_list(Get(ev, "characters", ListV(<<>>)))),
                      join(<<",", " ">>, ensure_list(Get(ev, "categories", ListV(<<>>)))),
                      Get(ev, "notes", <<>>) >>))
              IN  Contains(blob, lower(keyword))
    ELSE TRUE

filtered_events(all_events, story, era, character, category, keyword) ==
    SelectSeq(all_events, LAMBDA e : match(e, story, era, character, category, keyword))

\* The sentinel of sorted_events: datetime(9999,12,31).date()
sentinel == <<9999, 12, 31>>

\* key(e) of sorted_events
key(e) ==
    LET d == safe_parse_date(Get(e, "start_date", <<>>))
        primary == IF d # None THEN d ELSE sentinel
    IN  <<primary, Get(e, "sort_index", 0), lower(Get(e, "title", <<>>))>>

\* tuple < tuple on two keys
KeyLess(a, b) ==
    \/ DateLess(a[1], b[1])
    \/ a[1] = b[1] /\ a[2] < b[2]
    \/ a[1] = b[1] /\ a[2] = b[2] /\ StrLess(a[3], b[3])

\* sorted() is stable: e goes after every element whose key is not greater.
RECURSIVE InsertSorted(_, _)
InsertSorted(e, s) ==
    IF s = <<>> THEN <<e>>
    ELSE IF KeyLess(key(e), key(s[1])) THEN <<e>> \o s
    ELSE <<s[1]>> \o InsertSorted(e, Tail(s))

RECURSIVE SortFrom(_, _)
SortFrom(rest, acc) ==
    IF rest = <<>> THEN acc
    ELSE SortFrom(Tail(rest), InsertSorted(rest[1], acc))

sorted_events(evts) == SortFrom(evts, <<>>)

\* The literal "Uncategorized"
Uncategorized == <<"U", "n", "c", "a", "t", "e", "g", "o", "r", "i", "z", "e", "d">>

\* The chart loop without "or sd": End is left None when end_date does not parse
chart_row_no_fallback(e) ==
    LET sd == safe_parse_date(Get(e, "start_date", <<>>))
        ed == safe_parse_date(Get(e, "end_date", <<>>))
        cat == join(<<",", " ">>, ensure_list(Get(e, "categories", ListV(<<>>))))
    IN  IF sd # None
        THEN << [Title |-> Get(e, "title", <<>>), Start |-> sd, End |-> ed,
                 Story |-> Get(e, "story", <<>>), Era |-> Get(e, "era", <<>>),
                 Category |-> IF cat # <<>> THEN cat ELSE Uncategorized] >>
        ELSE <<>>

\* One pass of the chart loop: the row of e, or no row
chart_row(e) ==
    LET sd == safe_parse_date(Get(e, "start_date", <<>>))
        ed0 == safe_parse_date(Get(e, "end_date", <<>>))
        ed == IF ed0 # None THEN ed0 ELSE sd
        cat == join(<<",", " ">>, ensure_list(Get(e, "categories", ListV(<<>>))))
    IN  IF sd # None
        THEN << [Title |-> Get(e, "title", <<>>), Start |-> sd, End |-> ed,
                 Story |-> Get(e, "story", <<>>), Era |-> Get(e, "era", <<>>),
                 Category |-> IF cat # <<>> THEN cat ELSE Uncategorized] >>
        ELSE <<>>

RECURSIVE build_chart_rows(_)
build_chart_rows(cs) ==
    IF cs = <<>> THEN <<>>
    ELSE chart_row(cs[1]) \o build_chart_rows(Tail(cs))

\* ------------------------------------------------------------ state

VARIABLES
    events,          \* st.session_state.events
    edit_id,         \* st.session_state.edit_id (NoEdit for None)
    uploaded,        \* the file held by the file_uploader widget (NoFile for None)
    filters,         \* values of the four selectboxes and the keyword input
    options,         \* the option lists the selectboxes were last drawn with
    pc,              \* the section of the script the run is at ("idle": run over)
    clicked,         \* the interaction that started the run
    next_uuid,       \* uuid4() values are fresh: the next one
    json_bytes,      \* the JSON export offered by the sidebar
    csv_df,          \* the table behind the CSV export offered by the sidebar
    editing_event,   \* the script's editing_event (NoEvent for None)
    current,         \* the script's current (filtered events)
    current_sorted,  \* the script's current_sorted
    chart_rows,      \* the script's chart_rows
    rendered,        \* the buttons and inputs the last run drew
    notice,          \* what the import reported in this run ("" when nothing was loaded)
    error            \* the exception that ended the run ("" for none)

vars ==
    << events, edit_id, uploaded, filters, options, pc, clicked, next_uuid,
       json_bytes, csv_df, editing_event, current, current_sorted, chart_rows,
       rendered, notice, error >>


NoEdit == 0
NoEvent == [none |-> TRUE]
IsEvent(e) == "none" \notin DOMAIN e
NoFile == [kind |-> "none"]
NoClick == [kind |-> "none"]
NoFilters == [story |-> <<>>, era |-> <<>>, character |-> <<>>, category |-> <<>>, keyword |-> <<>>]
NoOptions == [story |-> <<>>, era |-> <<>>, character |-> <<>>, category |-> <<>>]
NoTable == [columns |-> {}, rows |-> <<>>]
NoJson == [kind |-> "none"]

\* ------------------------------------------------------ query inputs

\* Longest event list drawn as input of the query functions.
MaxQLen == 3

Ev(id, title, start, end, idx, story, era, chars, cats, date_text) ==
    [id |-> id, title |-> title, date_text |-> date_text, start_date |-> start,
     end_date |-> end, era |-> era, story |-> story, characters |-> chars,
     categories |-> cats, notes |-> <<>>, sort_index |-> idx]

T_1850 == <<"1", "8", "5", "0">>
T_1820_06 == <<"1", "8", "2", "0", "-", "0", "6">>
T_1850_2_1 == <<"1", "8", "5", "0", "-", "2", "-", "1">>
T_9999_12_31 == <<"9", "9", "9", "9", "-", "1", "2", "-", "3", "1">>
T_1999_13 == <<"1", "9", "9", "9", "-", "1", "3">>

QEvents ==
    { Ev(1, <<"a">>, T_1850, <<>>, 0, <<"A">>, <<>>, ListV(<< <<"A", "b">> >>), ListV(<<>>),
         <<"B">>),
      Ev(2, <<"B">>, <<" ">> \o T_1850, T_1850_2_1, 0, <<" ", "A", " ">>, <<"b">>,
         ListV(<< <<"B">> >>), ListV(<< <<"B">>, <<"a">> >>), <<>>),
      Ev(3, <<"b">>, <<>>, T_1850, -1, <<"B">>, <<>>, StrV(<<"a", "b", ",", " ", "A", "b">>),
         NullV, <<>>),
      Ev(4, <<"A">>, T_9999_12_31, T_1999_13, 1, <<"A">>, <<"b">>, ListV(<<>>),
         StrV(<<"b">>), <<>>),
      Ev(5, <<"a">>, T_1820_06, <<>>, 0, <<>>, <<>>, ListV(<<>>), ListV(<<>>), <<"b">>),
      [title |-> <<"a", "b">>, start_date |-> T_1999_13, sort_index |-> 0] }

SeqsUpTo(S, n) == UNION {[1..k -> S] : k \in 0..n}

QCriteria ==
    [story : {<<>>, <<"A">>}, era : {<<>>, <<"b">>}, character : {<<>>, <<"a", "B">>},
     category : {<<>>, <<"b">>}, keyword : {<<>>, <<"A", " ", "b">>}]

InitQuery ==
    /\ events \in SeqsUpTo(QEvents, MaxQLen)
    /\ filters \in QCriteria
    /\ edit_id = NoEdit
    /\ uploaded = NoFile
    /\ options = NoOptions
    /\ pc = "filter"
    /\ clicked = NoClick
    /\ next_uuid = 1
    /\ json_bytes = NoJson
    /\ csv_df = NoTable
    /\ editing_event = NoEvent
    /\ current = <<>>
    /\ current_sorted = <<>>
    /\ chart_rows = <<>>
    /\ rendered = {}
    /\ notice = ""
    /\ error = ""

\* current = filtered_events(...)
QFilter ==
    /\ pc = "filter"
    /\ current' = filtered_events(events, filters.story, filters.era, filters.character,
                                  filters.category, filters.keyword)
    /\ pc' = "sort"
    /\ UNCHANGED << events, edit_id, uploaded, filters, options, clicked, next_uuid,
                    json_bytes, csv_df, editing_event, current_sorted, chart_rows,
                    rendered, notice, error >>

\* current_sorted = sorted_events(current)
QSort ==
    /\ pc = "sort"
    /\ current_sorted' = sorted_events(current)
    /\ pc' = "chart"
    /\ UNCHANGED << events, edit_id, uploaded, filters, options, clicked, next_uuid,
                    json_bytes, csv_df, editing_event, current, chart_rows,
                    rendered, notice, error >>

\* the chart_rows loop over current_sorted
QProject ==
    /\ pc = "chart"
    /\ chart_rows' = build_chart_rows(current_sorted)
    /\ pc' = "idle"
    /\ UNCHANGED << events, edit_id, uploaded, filters, options, clicked, next_uuid,
                    json_bytes, csv_df, editing_event, current, current_sorted,
                    rendered, notice, error >>

NextQuery == QFilter \/ QSort \/ QProject

SpecQuery == InitQuery /\ [][NextQuery]_vars

\* ------------------------------------------------------- app inputs

\* uuid4() is called once per accepted Save; the model stops at this many.
MaxUuid == 1

W(kind) == [kind |-> kind, id |-> 0]
Btn(kind, id) == [kind |-> kind, id |-> id]

NoForm == [title |-> <<>>]

Click(kind, id, form) == [kind |-> kind, id |-> id, form |-> form]

\* What the user may have typed into the form when Save is pressed.
Forms ==
    { [title |-> <<" ", "a", " ">>, date_text |-> <<>>, start_date |-> T_1850,
       end_date |-> <<>>, era |-> <<>>, story |-> <<"A">>,
       characters_text |-> <<"A", "b", ",", " ", "a", "b">>, categories_text |-> <<>>,
       notes |-> <<>>, sort_index |-> 0],
      [title |-> <<"B">>, date_text |-> <<>>, start_date |-> <<>>,
       end_date |-> T_1850, era |-> <<"b">>, story |-> <<>>,
       characters_text |-> <<>>, categories_text |-> <<"b">>,
       notes |-> <<" ">>, sort_index |-> -1],
      [title |-> <<" ">>, date_text |-> <<>>, start_date |-> T_1850,
       end_date |-> <<>>, era |-> <<>>, story |-> <<>>,
       characters_text |-> <<>>, categories_text |-> <<>>,
       notes |-> <<>>, sort_index |-> 0] }

\* What the user may type into the keyword input.
Keywords == {<<>>, <<"A">>}

\* The files the user may upload.  Ids written in files are not uuid4 values
\* of this session.
File_garbage == [kind |-> "garbage"]
File_object == [kind |-> "object"]
File_good ==
    [kind |-> "array",
     items |-> << Ev(101, <<"a">>, T_1820_06, <<>>, 0, <<"A">>, <<>>, ListV(<<>>), ListV(<<>>), <<>>),
                  Ev(102, <<"B">>, <<>>, <<>>, 0, <<>>, <<>>, ListV(<< <<"B">> >>), ListV(<<>>), <<>>) >>]
File_dup ==
    [kind |-> "array",
     items |-> << Ev(101, <<"a">>, T_1850, <<>>, 0, <<>>, <<>>, ListV(<<>>), ListV(<<>>), <<>>),
                  Ev(101, <<"b">>, <<>>, <<>>, 0, <<>>, <<>>, ListV(<<>>), ListV(<<>>), <<>>) >>]
File_partial ==
    [kind |-> "array",
     items |-> << Ev(101, <<"a">>, T_1850, <<>>, 0, <<>>, <<>>, NullV, ListV(<<>>), <<>>),
                  [title |-> <<"b">>, start_date |-> T_9999_12_31] >>]
File_bare ==
    [kind |-> "array", items |-> << [id |-> 101, title |-> <<"a">>] >>]

Files == {File_garbage, File_object, File_good, File_dup, File_partial, File_bare}

\* ------------------------------------------------------ serialising

\* json.dumps(events): the document, an array of the records
json_dumps(evts) == [kind |-> "array", items |-> evts]

\* json.load(file): the decoded value; "raise" when the text is not JSON or
\* the buffer was already read to its end
json_load(file, fresh) ==
    IF ~fresh \/ file.kind = "garbage" THEN [kind |-> "raise"] ELSE file

TemplateColumns ==
    {"id", "title", "date_text", "start_date", "end_date", "era", "story",
     "characters", "categories", "notes", "sort_index"}

NaN == [nan |-> TRUE]

\* The lambda of to_dataframe on one cell of a list column
FlatCell(x) ==
    IF "nan" \in DOMAIN x THEN <<"n", "a", "n">>
    ELSE IF IsNull(x) THEN <<"N", "o", "n", "e">>
    ELSE IF IsList(x) THEN join(<<",", " ">>, x.list)
    ELSE x.str

DfColumns(evts) == UNION {DOMAIN evts[i] : i \in 1..Len(evts)}

\* df["characters"] / df["categories"] raise KeyError when no record has the key
to_dataframe_raises(evts) ==
    /\ evts # <<>>
    /\ ("characters" \notin DfColumns(evts) \/ "categories" \notin DfColumns(evts))

to_dataframe(evts) ==
    IF evts = <<>> THEN [columns |-> TemplateColumns, rows |-> <<>>]
    ELSE [columns |-> DfColumns(evts),
          rows |-> [i \in 1..Len(evts) |->
                      [c \in DfColumns(evts) |->
                         LET x == IF c \in DOMAIN evts[i] THEN evts[i][c] ELSE NaN
                         IN  IF c \in {"characters", "categories"} THEN FlatCell(x)
                             ELSE IF c \in DOMAIN evts[i] THEN [v |-> x] ELSE NaN]]]

\* ------------------------------------------------------ the handlers

HasId(e) == "id" \in DOMAIN e

\* e["id"] raises KeyError on a record without the key
AnyLacksId(evts) == \E i \in 1..Len(evts) : ~HasId(evts[i])

\* next((e for e in events if e["id"] == edit_id), None): index of the first match, 0 for none
LookupIndex(evts, eid) ==
    LET hits == {i \in 1..Len(evts) : HasId(evts[i]) /\ evts[i].id = eid}
    IN  IF hits = {} THEN 0 ELSE CHOOSE i \in hits : \A j \in hits : i <= j

\* the generator stops at the first match: a record without id before it raises
LookupRaises(evts, eid) ==
    LET k == LookupIndex(evts, eid)
        upto == IF k = 0 THEN Len(evts) ELSE k
    IN  \E i \in 1..upto : ~HasId(evts[i])

\* the payload of Save: the template, the id of the edited event if any, the form's fields
SavePayload(uuid, editing, form) ==
    [new_event_template(uuid) EXCEPT
        !.id = IF IsEvent(editing) THEN editing.id ELSE uuid,
        !.title = strip(form.title),
        !.date_text = strip(form.date_text),
        !.start_date = strip(form.start_date),
        !.end_date = strip(form.end_date),
        !.era = strip(form.era),
        !.story = strip(form.story),
        !.characters = ListV(ensure_list(StrV(form.characters_text))),
        !.categories = ListV(ensure_list(StrV(form.categories_text))),
        !.notes = strip(form.notes),
        !.sort_index = form.sort_index]

\* [payload if e["id"] == editing_event["id"] else e for e in events]
ReplaceById(evts, id, payload) ==
    [i \in 1..Len(evts) |-> IF evts[i].id = id THEN payload ELSE evts[i]]

\* [e for e in events if e["id"] != id]
DeleteById(evts, id) == SelectSeq(evts, LAMBDA e : e.id # id)

\* sorted(set(texts))
RECURSIVE SortTexts(_)
SortTexts(S) ==
    IF S = {} THEN <<>>
    ELSE LET m == CHOOSE x \in S : \A y \in S : ~StrLess(y, x)
         IN  <<m>> \o SortTexts(S \ {m})

Elems(l) == {l[i] : i \in 1..Len(l)}

FieldTexts(evts, k) ==
    {Get(evts[i], k, <<>>) : i \in 1..Len(evts)} \ {<<>>}

ListTexts(evts, k) ==
    UNION {Elems(ensure_list(Get(evts[i], k, ListV(<<>>)))) : i \in 1..Len(evts)}

\* all_stories, all_eras, all_characters, all_categories
all_options(evts) ==
    [story |-> SortTexts(FieldTexts(evts, "story")),
     era |-> SortTexts(FieldTexts(evts, "era")),
     character |-> SortTexts(ListTexts(evts, "characters")),
     category |-> SortTexts(ListTexts(evts, "categories"))]

\* ---------------------------------------------------- the script run

NoneClicked == Click("none", 0, NoForm)

Init ==
    /\ events = <<>>
    /\ edit_id = NoEdit
    /\ uploaded = NoFile
    /\ filters = NoFilters
    /\ options = NoOptions
    /\ pc = "sidebar"
    /\ clicked = NoneClicked
    /\ next_uuid = 1
    /\ json_bytes = NoJson
    /\ csv_df = NoTable
    /\ editing_event = NoEvent
    /\ current = <<>>
    /\ current_sorted = <<>>
    /\ chart_rows = <<>>
    /\ rendered = {}
    /\ notice = ""
    /\ error = ""

\* A run starts at the top of the script with a cleared page.
StartRun(c) ==
    /\ pc' = "sidebar"
    /\ clicked' = c
    /\ error' = ""
    /\ json_bytes' = NoJson
    /\ csv_df' = NoTable
    /\ editing_event' = NoEvent
    /\ current' = <<>>
    /\ current_sorted' = <<>>
    /\ chart_rows' = <<>>
    /\ rendered' = {}
    /\ notice' = ""

\* An exception no handler catches ends the run where it is.
Crash(msg) ==
    /\ pc' = "idle"
    /\ error' = msg
    /\ clicked' = NoneClicked

\* st.experimental_rerun(): the script starts over with no widget pressed
Rerun == StartRun(Click("rerun", 0, NoForm))

\* In the application model the user sets one of the five filter inputs at a
\* time (the query model draws every combination).
OneCriterion(f) ==
    \A j, k \in DOMAIN f : f[j] # <<>> /\ f[k] # <<>> => j = k

\* ---- what the user does between runs

\* a file is put into the uploader
UserUpload ==
    /\ pc = "idle"
    /\ W("uploader") \in rendered
    /\ \E f \in Files : uploaded' = [kind |-> "file", file |-> f]
    /\ StartRun(NoneClicked)
    /\ UNCHANGED <<events, edit_id, filters, options, next_uuid>>

\* the file is removed from the uploader
UserRemoveFile ==
    /\ pc = "idle"
    /\ W("uploader") \in rendered
    /\ uploaded.kind = "file"
    /\ uploaded' = NoFile
    /\ StartRun(NoneClicked)
    /\ UNCHANGED <<events, edit_id, filters, options, next_uuid>>

\* Save Event is pressed with some text in the form
UserSave ==
    /\ pc = "idle"
    /\ W("save") \in rendered
    /\ next_uuid <= MaxUuid
    /\ \E form \in Forms : StartRun(Click("save", 0, form))
    /\ UNCHANGED <<events, edit_id, uploaded, filters, options, next_uuid>>

\* Reset Form is pressed
UserReset ==
    /\ pc = "idle"
    /\ W("reset") \in rendered
    /\ StartRun(Click("reset", 0, NoForm))
    /\ UNCHANGED <<events, edit_id, uploaded, filters, options, next_uuid>>

\* Delete This Event is pressed
UserDeleteThis ==
    /\ pc = "idle"
    /\ W("delete_this") \in rendered
    /\ StartRun(Click("delete_this", 0, NoForm))
    /\ UNCHANGED <<events, edit_id, uploaded, filters, options, next_uuid>>

\* Edit or Delete is pressed on a card
UserCard ==
    /\ pc = "idle"
    /\ \E b \in rendered :
          /\ b.kind \in {"edit", "card_delete"}
          /\ StartRun(Click(b.kind, b.id, NoForm))
    /\ UNCHANGED <<events, edit_id, uploaded, filters, options, next_uuid>>

\* a selectbox is set to one of its options, or a keyword is typed
UserFilter ==
    /\ pc = "idle"
    /\ W("filters") \in rendered
    /\ \/ \E k \in {"story", "era", "character", "category"} :
            \E v \in Elems(options[k]) \cup {<<>>} :
                filters' = [filters EXCEPT ![k] = v]
       \/ \E v \in Keywords : filters' = [filters EXCEPT !.keyword = v]
    /\ OneCriterion(filters')
    /\ StartRun(NoneClicked)
    /\ UNCHANGED <<events, edit_id, uploaded, options, next_uuid>>

\* ---- the sections of the script

\* the value json.load gives for the uploader's file
Decoded(up, fresh) == json_load(up.file, fresh)

\* An import that extends the store with the list instead of replacing it
ImportedEvents_extend(evts, data) ==
    IF data.kind = "array" THEN evts \o data.items ELSE evts

\* lines 133-142: a list replaces the store, anything else is reported and dropped
ImportedEvents(evts, data) ==
    IF data.kind = "array" THEN data.items ELSE evts

\* st.success / st.error of the import
ImportNotice(data) ==
    IF data.kind = "array" THEN "Loaded timeline data from JSON."
    ELSE IF data.kind = "raise" THEN "Failed to load JSON"
    ELSE "Invalid JSON format: expected a list of events."

\* lines 121-145, the sidebar: the exports are built from the store as the run
\* finds it, then the uploader's file, if any, is loaded: in every run, for as
\* long as the uploader holds it.  A run the browser started reads the file from
\* its start; in a run st.experimental_rerun() started the widget may hand back
\* the object of the run before, already read to its end.
Sidebar ==
    /\ pc = "sidebar"
    /\ json_bytes' = json_dumps(events)
    /\ IF to_dataframe_raises(events)
       THEN /\ Crash("KeyError")
            /\ rendered' = rendered \cup {W("download_json")}
            /\ UNCHANGED <<csv_df, events, uploaded, notice>>
       ELSE /\ csv_df' = to_dataframe(events)
            /\ rendered' = rendered \cup {W("download_json"), W("download_csv"), W("uploader")}
            /\ IF uploaded.kind = "file"
               THEN \E fresh \in (IF clicked.kind = "rerun" THEN BOOLEAN ELSE {TRUE}) :
                       /\ events' = ImportedEvents(events, Decoded(uploaded, fresh))
                       /\ notice' = ImportNotice(Decoded(uploaded, fresh))
               ELSE UNCHANGED <<events, notice>>
            /\ UNCHANGED uploaded
            /\ pc' = "form"
            /\ UNCHANGED <<clicked, error>>
    /\ UNCHANGED <<edit_id, filters, options, next_uuid, editing_event, current,
                   current_sorted, chart_rows>>

\* ", ".join(editing_event.get(k, [])) raises TypeError on null
PrefillRaises(e) ==
    \/ IsNull(Get(e, "characters", ListV(<<>>)))
    \/ IsNull(Get(e, "categories", ListV(<<>>)))

\* lines 155-157: editing_event
Lookup(evts, eid) ==
    IF eid # NoEdit /\ LookupIndex(evts, eid) # 0
    THEN evts[LookupIndex(evts, eid)] ELSE NoEvent

\* lines 187-212: the Save Event handler
SaveRaises(evts, editing, form) ==
    strip(form.title) # <<>> /\ IsEvent(editing) /\ AnyLacksId(evts)

\* A Save that puts a new event first instead of appending it
SavedEvents_front(evts, editing, form, uuid) ==
    IF strip(form.title) = <<>> THEN evts
    ELSE IF IsEvent(editing)
         THEN ReplaceById(evts, editing.id, SavePayload(uuid, editing, form))
         ELSE <<SavePayload(uuid, editing, form)>> \o evts

\* events after the handler
SavedEvents(evts, editing, form, uuid) ==
    IF strip(form.title) = <<>> THEN evts
    ELSE IF IsEvent(editing)
         THEN ReplaceById(evts, editing.id, SavePayload(uuid, editing, form))
         ELSE Append(evts, SavePayload(uuid, editing, form))

SavedEditId(eid, editing, form) ==
    IF strip(form.title) # <<>> /\ IsEvent(editing) THEN NoEdit ELSE eid

\* lines 219-223: the Delete This Event handler
DeletedEvents(evts, editing) == DeleteById(evts, editing.id)

\* lines 151-223, the Add / Edit form: editing_event, the inputs, the three buttons
AddEditForm ==
    /\ pc = "form"
    /\ LET found == Lookup(events, edit_id)
           drawn == {W("save"), W("reset")}
                    \cup (IF IsEvent(found) THEN {W("delete_this")} ELSE {})
       IN
       IF edit_id # NoEdit /\ LookupRaises(events, edit_id)
       THEN /\ Crash("KeyError")
            /\ UNCHANGED <<events, edit_id, next_uuid, json_bytes, csv_df, editing_event,
                           current, current_sorted, chart_rows, rendered, notice>>
       ELSE IF IsEvent(found) /\ PrefillRaises(found)
       THEN /\ Crash("TypeError")
            /\ editing_event' = found
            /\ UNCHANGED <<events, edit_id, next_uuid, json_bytes, csv_df,
                           current, current_sorted, chart_rows, rendered, notice>>
       ELSE
       CASE clicked.kind = "save" ->
              IF SaveRaises(events, found, clicked.form)
              THEN /\ Crash("KeyError")
                   /\ editing_event' = found
                   /\ rendered' = rendered \cup {W("save")}
                   /\ next_uuid' = next_uuid + 1
                   /\ UNCHANGED <<events, edit_id, json_bytes, csv_df,
                                  current, current_sorted, chart_rows, notice>>
              ELSE /\ events' = SavedEvents(events, found, clicked.form, next_uuid)
                   /\ edit_id' = SavedEditId(edit_id, found, clicked.form)
                   /\ next_uuid' = IF strip(clicked.form.title) = <<>>
                                   THEN next_uuid ELSE next_uuid + 1
                   /\ editing_event' = found
                   /\ rendered' = rendered \cup drawn
                   /\ pc' = "filter"
                   /\ UNCHANGED <<clicked, error, json_bytes, csv_df,
                                  current, current_sorted, chart_rows, notice>>
         [] clicked.kind = "reset" ->
              /\ edit_id' = NoEdit
              /\ Rerun
              /\ UNCHANGED <<events, next_uuid>>
         [] clicked.kind = "delete_this" /\ IsEvent(found) ->
              IF AnyLacksId(events)
              THEN /\ Crash("KeyError")
                   /\ editing_event' = found
                   /\ rendered' = rendered \cup drawn
                   /\ UNCHANGED <<events, edit_id, next_uuid, json_bytes, csv_df,
                                  current, current_sorted, chart_rows, notice>>
              ELSE /\ events' = DeletedEvents(events, found)
                   /\ edit_id' = NoEdit
                   /\ editing_event' = found
                   /\ rendered' = rendered \cup drawn
                   /\ pc' = "filter"
                   /\ UNCHANGED <<clicked, error, next_uuid, json_bytes, csv_df,
                                  current, current_sorted, chart_rows, notice>>
         [] OTHER ->
              /\ editing_event' = found
              /\ rendered' = rendered \cup drawn
              /\ pc' = "filter"
              /\ UNCHANGED <<events, edit_id, clicked, error, next_uuid, json_bytes,
                             csv_df, current, current_sorted, chart_rows, notice>>
    /\ UNCHANGED <<uploaded, filters, options>>

\* A selectbox drawn with other options than last time is back at its first option.
KeptFilters(f, old, new) ==
    [story |-> IF new.story = old.story THEN f.story ELSE <<>>,
     era |-> IF new.era = old.era THEN f.era ELSE <<>>,
     character |-> IF new.character = old.character THEN f.character ELSE <<>>,
     category |-> IF new.category = old.category THEN f.category ELSE <<>>,
     keyword |-> f.keyword]

\* lines 227-248, Filter & Search: the filter inputs, current and current_sorted
FilterSearch ==
    /\ pc = "filter"
    /\ options' = all_options(events)
    /\ filters' = KeptFilters(filters, options, options')
    /\ current' = filtered_events(events, filters'.story, filters'.era, filters'.character,
                                  filters'.category, filters'.keyword)
    /\ current_sorted' = sorted_events(current')
    /\ rendered' = rendered \cup {W("filters")}
    /\ pc' = "views"
    /\ UNCHANGED <<events, edit_id, uploaded, clicked, next_uuid, json_bytes, csv_df,
                   editing_event, chart_rows, notice, error>>

\* The card at which the loop of lines 257-278 stops: the first whose ev['id']
\* raises, whose button keys were already used, or whose pressed button reruns
\* the script; 0 when every card is drawn.
CardStops(cs, c, i) ==
    \/ ~HasId(cs[i])
    \/ \E j \in 1..(i - 1) : cs[j].id = cs[i].id
    \/ c.kind \in {"edit", "card_delete"} /\ c.id = cs[i].id

StopIndex(cs, c) ==
    LET stops == {i \in 1..Len(cs) : CardStops(cs, c, i)}
    IN  IF stops = {} THEN 0 ELSE CHOOSE i \in stops : \A j \in stops : i <= j

CardButtons(cs, n) ==
    UNION {{Btn("edit", cs[i].id), Btn("card_delete", cs[i].id)} : i \in 1..n}

\* lines 250-305, the views: the event cards with their buttons, then the chart rows
Views ==
    /\ pc = "views"
    /\ LET k == StopIndex(current_sorted, clicked)
           drawn == CardButtons(current_sorted, IF k = 0 THEN Len(current_sorted) ELSE k - 1)
       IN  IF k = 0
           THEN /\ rendered' = rendered \cup drawn
                /\ chart_rows' = build_chart_rows(current_sorted)
                /\ pc' = "idle"
                /\ clicked' = NoneClicked
                /\ UNCHANGED <<events, edit_id, error, json_bytes, csv_df,
                               editing_event, current, current_sorted, notice>>
           ELSE IF ~HasId(current_sorted[k])
           THEN /\ Crash("KeyError")
                /\ rendered' = rendered \cup drawn
                /\ UNCHANGED <<events, edit_id, json_bytes, csv_df, editing_event,
                               current, current_sorted, chart_rows, notice>>
           ELSE IF \E j \in 1..(k - 1) : current_sorted[j].id = current_sorted[k].id
           THEN /\ Crash("DuplicateWidgetID")
                /\ rendered' = rendered \cup drawn
                /\ UNCHANGED <<events, edit_id, json_bytes, csv_df, editing_event,
                               current, current_sorted, chart_rows, notice>>
           ELSE IF clicked.kind = "edit"
           THEN /\ edit_id' = current_sorted[k].id
                /\ Rerun
                /\ UNCHANGED events
           ELSE IF AnyLacksId(events)
           THEN /\ Crash("KeyError")
                /\ rendered' = rendered \cup drawn \cup {Btn("edit", current_sorted[k].id)}
                /\ UNCHANGED <<events, edit_id, json_bytes, csv_df, editing_event,
                               current, current_sorted, chart_rows, notice>>
           ELSE /\ events' = DeleteById(events, current_sorted[k].id)
                /\ Rerun
                /\ UNCHANGED edit_id
    /\ UNCHANGED <<uploaded, filters, options, next_uuid>>

Next ==
    \/ UserUpload \/ UserRemoveFile \/ UserSave \/ UserReset \/ UserDeleteThis
    \/ UserCard \/ UserFilter
    \/ Sidebar \/ AddEditForm \/ FilterSearch \/ Views

Spec == Init /\ [][Next]_vars

\* =========================================================== claims

InStore(evts, x) == \E i \in 1..Len(evts) : HasId(evts[i]) /\ evts[i].id = x

IdsIn(evts) == {evts[i].id : i \in {j \in 1..Len(evts) : HasId(evts[j])}}

\* The record Save is to write for the form f under id x.
Submitted(e, f, x) ==
    /\ DOMAIN e = TemplateColumns
    /\ e.id = x
    /\ e.title = strip(f.title)
    /\ e.date_text = strip(f.date_text)
    /\ e.start_date = strip(f.start_date)
    /\ e.end_date = strip(f.end_date)
    /\ e.era = strip(f.era)
    /\ e.story = strip(f.story)
    /\ e.characters = ListV(ensure_list(StrV(f.characters_text)))
    /\ e.categories = ListV(ensure_list(StrV(f.categories_text)))
    /\ e.notes = strip(f.notes)
    /\ e.sort_index = f.sort_index

\* C1: in every reachable state no two events of the store have the same id.
C1_UniqueIds ==
    \A i, j \in 1..Len(events) :
        (i # j /\ HasId(events[i]) /\ HasId(events[j])) => events[i].id # events[j].id

\* Save pressed with a non-blank title while the edit selection X is in the store.
UpdateOfX ==
    /\ pc = "form"
    /\ clicked.kind = "save"
    /\ strip(clicked.form.title) # <<>>
    /\ edit_id # NoEdit
    /\ InStore(events, edit_id)

\* C2: an update of X keeps the length of the store, puts the submitted fields
\* under id X at the position X held, and leaves every other event as it was.
C2_UpdateInPlace ==
    [][UpdateOfX =>
          LET k == LookupIndex(events, edit_id)
          IN  /\ Len(events') = Len(events)
              /\ Submitted(events'[k], clicked.form, edit_id)
              /\ \A i \in 1..Len(events) : i # k => events'[i] = events[i]]_vars

\* Save pressed while the edit selection holds an id no event of the store has.
SaveOfAbsentX ==
    /\ pc = "form"
    /\ clicked.kind = "save"
    /\ edit_id # NoEdit
    /\ ~InStore(events, edit_id)

C4_ImportAllOrNothing ==
    [][(pc = "sidebar" /\ pc' = "form" /\ uploaded.kind = "file") =>
          LET f == uploaded.file
              loaded == "Loaded timeline data from JSON."
              invalid == "Invalid JSON format: expected a list of events."
              failed == "Failed to load JSON"
          IN  /\ notice' \in {loaded, invalid, failed}
              /\ f.kind = "garbage" => notice' = failed
              /\ f.kind = "object" => notice' # loaded
              /\ f.kind = "array" => notice' # invalid
              /\ clicked.kind # "rerun" =>
                    /\ f.kind = "object" => notice' = invalid
                    /\ f.kind = "array" => notice' = loaded
              /\ notice' = loaded => events' = f.items
              /\ notice' # loaded => events' = events]_vars

\* C4 witness: a list was loaded over a store that held other events.
C4_Witness ==
    /\ pc = "form"
    /\ notice = "Loaded timeline data from JSON."
    /\ events = uploaded.file.items
    /\ json_bytes.kind = "array"
    /\ json_bytes.items # <<>>
    /\ json_bytes.items # events

\* C5: after a load of a list of malformed records no run ends in an unhandled error.
C5_NoUnhandledError == error = ""

\* C9: the edit selection is empty or the id of an event of the store.
C9_EditIdInStore == edit_id = NoEdit \/ InStore(events, edit_id)

\* C10: at the end of a run the exports on offer are those of the store as it
\* then is (stated for the runs in which the uploader holds no file, so that
\* nothing but the form and the cards has touched the store).
C10_ExportCurrent ==
    (pc = "idle" /\ error = "" /\ uploaded = NoFile) =>
        /\ json_bytes = json_dumps(events)
        /\ csv_df = to_dataframe(events)

\* ---- claims about the query functions, checked under SpecQuery

Parses(e) == safe_parse_date(Get(e, "start_date", <<>>)) # None

Count(s, e) == Cardinality({i \in 1..Len(s) : s[i] = e})

IsPermutation(a, b) ==
    /\ Len(a) = Len(b)
    /\ \A i \in 1..Len(a) : Count(a, a[i]) = Count(b, a[i])

\* the k-th smallest member of a set of indices
Nth(S, k) == CHOOSE i \in S : Cardinality({j \in S : j < i}) = k - 1

\* a must come strictly before b: by start date when both parse, then by
\* sort_index, then by lower-cased title
Precedes(a, b) ==
    LET da == safe_parse_date(Get(a, "start_date", <<>>))
        db == safe_parse_date(Get(b, "start_date", <<>>))
        ia == Get(a, "sort_index", 0)
        ib == Get(b, "sort_index", 0)
        ta == lower(Get(a, "title", <<>>))
        tb == lower(Get(b, "title", <<>>))
        sameDay == (Parses(a) /\ Parses(b)) => da = db
    IN  \/ Parses(a) /\ Parses(b) /\ DateLess(da, db)
        \/ sameDay /\ ia < ib
        \/ sameDay /\ ia = ib /\ StrLess(ta, tb)

\* C6: sorted_events gives a permutation of its input in which every event
\* whose start_date parses comes before every event whose start_date does not,
\* and events are otherwise in order of start date, sort_index, lower-cased title.
C6_ParsedFirst ==
    pc \in {"chart", "idle"} =>
        /\ IsPermutation(current_sorted, current)
        /\ \A i, j \in 1..Len(current_sorted) :
              i < j =>
                /\ ~(~Parses(current_sorted[i]) /\ Parses(current_sorted[j]))
                /\ (Parses(current_sorted[i]) = Parses(current_sorted[j]))
                      => ~Precedes(current_sorted[j], current_sorted[i])

\* the text the keyword is searched in
TextOf(e) ==
    join(<<" ">>, << Get(e, "title", <<>>), Get(e, "date_text", <<>>),
                     Get(e, "story", <<>>), Get(e, "era", <<>>),
                     join(<<",", " ">>, ensure_list(Get(e, "characters", ListV(<<>>)))),
                     join(<<",", " ">>, ensure_list(Get(e, "categories", ListV(<<>>)))),
                     Get(e, "notes", <<>>) >>)

HasMember(l, x) == \E i \in 1..Len(l) : lower(l[i]) = lower(x)

Satisfies(e, f) ==
    /\ f.story # <<>> => strip(Get(e, "story", <<>>)) = f.story
    /\ f.era # <<>> => strip(Get(e, "era", <<>>)) = f.era
    /\ f.character # <<>>
          => HasMember(ensure_list(Get(e, "characters", ListV(<<>>))), f.character)
    /\ f.category # <<>>
          => HasMember(ensure_list(Get(e, "categories", ListV(<<>>))), f.category)
    /\ f.keyword # <<>> => Contains(lower(TextOf(e)), lower(f.keyword))

\* C7: filtered_events gives, in input order, exactly the events that satisfy
\* every criterion supplied; with all five criteria empty it gives the input.
C7_FilterExact ==
    pc \in {"sort", "chart", "idle"} =>
        LET keep == {i \in 1..Len(events) : Satisfies(events[i], filters)}
        IN  /\ Len(current) = Cardinality(keep)
            /\ \A k \in 1..Len(current) : current[k] = events[Nth(keep, k)]
            /\ filters = NoFilters => current = events

\* C7 witness: a character criterion differing in case from the stored name and
\* a keyword kept some events and dropped others.
C7_Witness ==
    /\ pc = "sort"
    /\ filters.character = <<"a", "B">>
    /\ filters.keyword # <<>>
    /\ current # <<>>
    /\ Len(current) < Len(events)

RowsFor(cs, rows) ==
    LET dated == {i \in 1..Len(cs) : Parses(cs[i])}
    IN  /\ Len(rows) = Cardinality(dated)
        /\ \A k \in 1..Len(rows) :
              LET e == cs[Nth(dated, k)]
                  end == safe_parse_date(Get(e, "end_date", <<>>))
              IN  /\ rows[k].Title = Get(e, "title", <<>>)
                  /\ rows[k].Start = safe_parse_date(Get(e, "start_date", <<>>))
                  /\ rows[k].End = IF end # None THEN end ELSE rows[k].Start

\* C8: the chart projection has one row for each filtered event whose
\* start_date parses, in sorted order, and none for the others; End is the
\* parsed end_date, or Start when end_date does not parse; no event of the store
\* is changed.
C8_ChartRows ==
    [][pc = "chart" =>
          /\ events' = events
          /\ current' = current
          /\ current_sorted' = current_sorted
          /\ RowsFor(current_sorted, chart_rows')
          /\ Len(chart_rows') = Cardinality({i \in 1..Len(current) : Parses(current[i])})]_vars

\* C8 witness: a chart with a row whose End fell back to Start, a row with an
\* End of its own, and a filtered event left out for its start_date.
C8_Witness ==
    /\ pc = "idle"
    /\ \E i \in 1..Len(current_sorted) : ~Parses(current_sorted[i])
    /\ \E k \in 1..Len(chart_rows) : chart_rows[k].End = chart_rows[k].Start
    /\ \E k \in 1..Len(chart_rows) : chart_rows[k].End # chart_rows[k].Start

====
